---- MODULE Spec2Model ----
(***************************************************************************)
(* Model of src/main.py: the AI Business Assistant Generator backend.      *)
(*                                                                         *)
(* POST /generate (generate_assistant) normalises and validates the        *)
(* subscription tier, runs the section generators, attempts the two        *)
(* archival writes and returns the GenerationResult.                       *)
(*                                                                         *)
(* Representation of Python values:                                        *)
(*   str            TLA+ string (SubSeq / Len / \o act on characters)      *)
(*   list           sequence                                               *)
(*   dict           record; a key added under a condition is merged in     *)
(*                  with @@, so DOMAIN tells whether the key is present    *)
(*   Optional[T]    None is << >>, a present value v is << v >>            *)
(*   raised error   a record [exc |-> <exception class>]                   *)
(* The source's literals U+2192 (arrow) and U+2014 (em dash) are written   *)
(* Arrow and EmDash because a TLA+ string literal holds ASCII only.        *)
(***************************************************************************)
EXTENDS Integers, Sequences, FiniteSets, TLC

VARIABLES
    pc,          \* position of generate_assistant in the current request
    data,        \* the BusinessInput of the current request
    tier,        \* local `tier` of generate_assistant (normalised)
    result,      \* local `result` of generate_assistant
    response,    \* what the caller receives
    store,       \* the document store: which collections accept a write of
                 \* the current request
    calls,       \* create_document calls made for the current request
    logged,      \* lines printed for the current request
    remembered,  \* observer: one earlier request and its response
    fn_args,     \* direct call of a generator function: its arguments
    fn_ret       \* direct call of a generator function: its return value

vars == << pc, data, tier, result, response, store, calls, logged,
           remembered, fn_args, fn_ret >>

server_vars == << pc, data, tier, result, response, store, calls, logged,
                  remembered >>

-----------------------------------------------------------------------------
(* Bounds of the model *)

\* longest services list of an input
MaxServices == 2

\* latest reading of datetime.utcnow()
MaxClock == 1

-----------------------------------------------------------------------------
(* Python values *)

None == << >>

Some(v) == << v >>

Truthy(opt) == opt # None /\ opt[1] # ""

Raise(name) == [exc |-> name]

\* a local that is not bound yet
Unset == [unset |-> TRUE]

IsSet(v) == "unset" \notin DOMAIN v

IsRaised(v) == DOMAIN v = {"exc"}

Arrow == "->"

EmDash == "--"

UpperChars == "ABCDEFGHIJKLMNOPQRSTUVWXYZ"

LowerChars == "abcdefghijklmnopqrstuvwxyz"

RECURSIVE IndexOfChar(_, _, _)
IndexOfChar(c, s, i) ==
    IF i > Len(s) THEN 0
    ELSE IF SubSeq(s, i, i) = c THEN i
    ELSE IndexOfChar(c, s, i + 1)

char_lower(c) ==
    LET k == IndexOfChar(c, UpperChars, 1)
    IN  IF k = 0 THEN c ELSE SubSeq(LowerChars, k, k)

\* The tier used as received, not lower-cased.
str_lower_omitted(s) == s

RECURSIVE str_lower(_)
str_lower(s) ==
    IF Len(s) = 0 THEN ""
    ELSE char_lower(SubSeq(s, 1, 1)) \o str_lower(SubSeq(s, 2, Len(s)))

RECURSIVE str_remove_spaces(_)
str_remove_spaces(s) ==
    IF Len(s) = 0 THEN ""
    ELSE (IF SubSeq(s, 1, 1) = " " THEN "" ELSE SubSeq(s, 1, 1))
         \o str_remove_spaces(SubSeq(s, 2, Len(s)))

RECURSIVE str_join(_, _)
str_join(sep, items) ==
    IF Len(items) = 0 THEN ""
    ELSE IF Len(items) = 1 THEN items[1]
    ELSE items[1] \o sep \o str_join(sep, Tail(items))

RECURSIVE list_repeat(_, _)
list_repeat(items, n) ==
    IF n = 0 THEN << >> ELSE items \o list_repeat(items, n - 1)

list_take(items, n) ==
    SubSeq(items, 1, IF Len(items) < n THEN Len(items) ELSE n)

-----------------------------------------------------------------------------
(* Helper generation utilities *)

sentence_list(items) == str_join(", ", items)

make_business_summary(d) ==
    LET goals == sentence_list(d.goals)
    IN  d.business_name \o " is a " \o d.tone \o " " \o d.industry
        \o " brand based in " \o d.location \o ". "
        \o "They offer " \o sentence_list(d.services) \o " to "
        \o d.target_audience \o ". "
        \o "Primary goals: "
        \o (IF goals # "" THEN goals
            ELSE "brand growth and customer satisfaction")
        \o "."

make_brand_identity(d) ==
    [ colors |-> d.brand_colors,
      typography |-> << "Inter", "Manrope", "Geist" >>,
      voice |-> IF Truthy(d.brand_voice) THEN d.brand_voice[1]
                ELSE d.tone \o ", clear, helpful, conversion-focused",
      keywords |-> << d.industry, d.location >> \o d.services,
      value_props |-> << "Fast response times", "Clear pricing",
                         "Expert support" >> ]

TierOrder == [ starter |-> 0, standard |-> 1, premium |-> 2 ]

FeatureGates ==
    [ basic |-> 0, website |-> 1, ads |-> 1, booking |-> 1,
      caller_bot |-> 2, crm |-> 2, full_builder |-> 2,
      voice_support |-> 2, analytics_full |-> 2, domain_hosting |-> 2 ]

dict_get(d, key, default) == IF key \in DOMAIN d THEN d[key] ELSE default

tier_includes_strict(feature, t) ==
    dict_get(TierOrder, t, 0) > dict_get(FeatureGates, feature, 0)

tier_includes_ads_ungated(feature, t) ==
    dict_get(TierOrder, t, 0)
        >= (IF feature = "ads" THEN 0 ELSE dict_get(FeatureGates, feature, 0))

\* An unknown tier name given the highest ordinal instead of the lowest.
tier_includes_unknown_tier_top(feature, t) ==
    dict_get(TierOrder, t, 2) >= dict_get(FeatureGates, feature, 0)

tier_includes(feature, t) ==
    dict_get(TierOrder, t, 0) >= dict_get(FeatureGates, feature, 0)

make_chatbot_persona(d) ==
    LET system_prompt ==
            "You are " \o d.business_name \o "'s AI assistant. Tone: "
            \o d.tone \o ". " \o "Industry: " \o d.industry
            \o ". Target audience: " \o d.target_audience \o "."
        knowledge ==
            [ business_description |-> make_business_summary(d),
              services |-> d.services,
              policies |-> << "Be polite", "Never promise unavailable offers",
                              "Escalate complex issues" >>,
              goals |-> d.goals,
              faqs |-> d.faqs,
              examples |-> d.examples,
              rag_chunks |->
                << [ type |-> "services",
                     content |-> sentence_list(d.services) ],
                   [ type |-> "policies",
                     content |-> str_join("; ",
                        << "Response within 5 minutes", "Refunds per policy",
                           "Escalation to human on request" >>) ],
                   [ type |-> "about",
                     content |-> "Operating in " \o d.location
                                 \o ". Audience: " \o d.target_audience
                                 \o "." ] >>,
              capabilities |->
                << "Customer service", "Sales qualification", "Lead capture",
                   "FAQ handling", "Product explanation",
                   "Content generation", "Appointment scheduling",
                   "CRM entry" >> ]
        outputs ==
            [ greeting |-> "Hi! You're speaking with the " \o d.business_name
                           \o " AI assistant " \o EmDash
                           \o " how can I help today?",
              lead_form_fields |-> << "name", "email", "phone", "need" >>,
              behavior_rules |->
                << "Mirror brand tone and stay concise",
                   "Always propose next step (book, call, order, contact)",
                   "Ask one clarifying question before giving long answers",
                   "Offer links and quick actions when relevant" >>,
              response_style |->
                [ format |-> "short paragraphs with bullet highlights",
                  voice |-> IF Truthy(d.brand_voice) THEN d.brand_voice[1]
                            ELSE d.tone,
                  cta |-> "Use strong, specific CTAs" ],
              conversation_structure |->
                << "Greet " \o Arrow \o " clarify need",
                   "Match intent " \o Arrow \o " provide answer",
                   "Offer next step with buttons",
                   "Confirm satisfaction or escalate" >>,
              quick_actions |-> << "Book", "Get quote", "Talk to human",
                                   "See pricing", "Contact" >>,
              buttons |->
                << [ label |-> "Book", action |-> "open_booking" ],
                   [ label |-> "Order", action |-> "open_checkout" ],
                   [ label |-> "Contact", action |-> "open_contact" ] >> ]
    IN  [ system_prompt |-> system_prompt,
          knowledge |-> knowledge,
          outputs |-> outputs ]

make_website_structure(d, t) ==
    LET base ==
            [ pages |->
                << [ path |-> "/", title |-> "Home" ],
                   [ path |-> "/about", title |-> "About" ],
                   [ path |-> "/services", title |-> "Services",
                     items |-> d.services ],
                   [ path |-> "/pricing", title |-> "Pricing" ],
                   [ path |-> "/contact", title |-> "Contact" ] >>,
              seo |->
                [ title |-> d.business_name \o " | " \o d.industry
                            \o " in " \o d.location,
                  description |-> d.business_name \o " offers "
                                  \o sentence_list(d.services) \o " in "
                                  \o d.location \o ".",
                  keywords |-> << d.business_name, d.industry, d.location >>
                               \o d.services ],
              theme |-> [ colors |-> d.brand_colors, tone |-> d.tone ] ]
    IN  IF tier_includes("website", t)
        THEN [ integrations |-> [ chat_widget |-> TRUE, booking |-> TRUE ] ]
             @@ base
        ELSE base

CalendarThemes ==
    << "Brand story", "How it works", "Customer testimonial",
       "Service spotlight", "Behind the scenes", "FAQ of the week",
       "Offer/CTA" >>

ThemeRepeats == 4

CalendarSlice == 30

base_calendar ==
    LET themes == list_repeat(CalendarThemes, ThemeRepeats)
        entries == [ i \in 1..Len(themes) |->
                        [ day |-> (i - 1) + 1, theme |-> themes[i] ] ]
    IN  list_take(entries, CalendarSlice)

make_social_plan(d, t) ==
    LET base ==
            [ calendar_30_day |-> base_calendar,
              captions_style |-> d.tone \o " with clear CTAs",
              hashtags |-> << "#" \o str_remove_spaces(d.industry),
                              "#" \o str_remove_spaces(d.location),
                              "#SmallBusiness", "#Tips" >> ]
    IN  IF tier_includes("ads", t)
        THEN [ ad_angles |-> << "Pain-Agitate-Solve for top problem",
                                "Time-saving benefit angle",
                                "Local authority angle" >>,
               platforms |-> << "Instagram", "Facebook", "Google",
                                "TikTok" >> ] @@ base
        ELSE [ platforms |-> << "Instagram", "Facebook" >> ] @@ base

make_booking_tools(d, t) ==
    LET base ==
            [ booking_link |-> "https://book."
                    \o str_remove_spaces(str_lower(d.business_name)) \o ".ai",
              reminders |-> << "email" >>,
              confirmation_messages |->
                    [ email |-> "Thanks for booking with us!" ],
              calendar_sync |-> FALSE ]
    IN  IF tier_includes("booking", t)
        THEN [ base EXCEPT !.reminders = << "email", "sms", "whatsapp" >>,
                           !.calendar_sync = TRUE ]
        ELSE base

make_sales_ads(d, t) ==
    IF Len(d.services) = 0 THEN Raise("IndexError")
    ELSE
        LET first == d.services[1]
            base ==
              [ funnels |->
                  << [ name |-> "Lead magnet " \o Arrow \o " Nurture "
                                \o Arrow \o " Consult",
                       stages |-> << "Offer", "Capture", "Email nurture",
                                     "Consult call" >> ] >>,
                ad_ideas |->
                  << [ platform |-> "Facebook",
                       headline |-> d.business_name \o ": " \o first
                                    \o " in " \o d.location,
                       copy |-> "Tired of guessing? Try our " \o first
                                \o " " \o EmDash
                                \o " trusted by locals." ] >> ]
        IN  IF tier_includes("ads", t)
            THEN [ generators |-> << "FB/IG primary text",
                                     "Google RSA headlines",
                                     "TikTok hooks" >> ] @@ base
            ELSE base

make_sops(d, t) ==
    LET sops0 == << "Inbound chat triage and escalation",
                    "Lead capture and CRM entry",
                    "Daily social posting routine" >>
        sops1 == IF tier_includes("website", t)
                 THEN Append(sops0,
                        "Appointment scheduling and no-show follow-up")
                 ELSE sops0
    IN  IF tier_includes("caller_bot", t)
        THEN Append(sops1, "Automated call reminders and voicemail drop")
        ELSE sops1

make_automations(d, t) ==
    LET base ==
            [ workflows |->
                << [ name |-> "Lead capture " \o Arrow \o " follow up "
                              \o Arrow \o " booking",
                     trigger |-> "New lead",
                     actions |-> << "Send welcome email",
                                    "Create CRM contact",
                                    "Offer booking link" >> ],
                   [ name |-> "New customer " \o Arrow \o " onboarding",
                     trigger |-> "First purchase",
                     actions |-> << "Send onboarding guide",
                                    "Invite to portal" >> ] >>,
              triggers |-> << "New website chat", "Form submission",
                              "New booking" >>,
              actions |-> << "Send confirmation email", "Create CRM contact",
                             "Notify team Slack" >> ]
    IN  IF tier_includes("crm", t)
        THEN [ integrations |-> << "CRM", "WhatsApp", "Facebook",
                                   "Instagram", "Calendar" >> ] @@ base
        ELSE [ integrations |-> << "Email", "Calendar" >> ] @@ base

make_dashboard(d, t) ==
    LET roles0 == << [ name |-> "AI Receptionist", status |-> "ready" ],
                     [ name |-> "AI Support Agent", status |-> "ready" ],
                     [ name |-> "AI Content Creator", status |-> "ready" ] >>
        roles1 == IF tier_includes("ads", t)
                  THEN roles0 \o
                       << [ name |-> "AI Ad Expert", status |-> "ready" ],
                          [ name |-> "AI Social Media Manager",
                            status |-> "ready" ] >>
                  ELSE roles0
        roles2 == IF tier_includes("voice_support", t)
                  THEN roles1 \o
                       << [ name |-> "AI Sales Agent", status |-> "ready" ],
                          [ name |-> "AI Booking & Scheduling Assistant",
                            status |-> "ready" ],
                          [ name |-> "AI Financial Assistant",
                            status |-> "ready" ],
                          [ name |-> "24/7 Multi-platform Assistant",
                            status |-> "ready" ] >>
                  ELSE roles1
        analytics ==
            [ level |-> IF ~ tier_includes("analytics_full", t)
                        THEN "basic" ELSE "full",
              widgets |-> IF tier_includes("analytics_full", t)
                          THEN << "Leads", "Bookings", "Messages", "Traffic",
                                  "Revenue" >>
                          ELSE << "Leads", "Bookings", "Messages" >> ]
    IN  [ roles |-> roles2, analytics |-> analytics ]

OAuthProviders ==
    << "Facebook", "Instagram", "TikTok", "YouTube", "LinkedIn", "Twitter" >>

make_social_oauth(d) ==
    [ prompt |->
        "Connect your existing social accounts. We won't create new ones.",
      providers |-> OAuthProviders,
      status |-> [ p \in { str_lower(OAuthProviders[i]) :
                              i \in 1..Len(OAuthProviders) }
                     |-> "disconnected" ] ]

make_website_actions(d, t) ==
    LET has_site == Truthy(d.website_url)
    IN  IF has_site
        THEN [ mode |-> "integrate",
               ask_for |->
                 [ domain |-> d.website_url[1],
                   hosting_provider |-> "(user input)",
                   cms |-> "(WordPress, Wix, custom, etc.)",
                   access_method |-> "(API, admin login, CPanel, FTP)" ],
               generate |-> << "Updated pages", "SEO improvements",
                               "Booking widget", "Chat widget",
                               "Analytics integration", "New service pages",
                               "Blog content" >> ]
        ELSE [ mode |-> "create",
               generate |-> << "Full modern website",
                               "Home/Services/About/Contact/Pricing pages",
                               "Booking system", "Chatbot widget",
                               "SEO metadata",
                               "Branding style based on colors" >>,
               deployment |->
                 [ hosting_setup |-> tier_includes("domain_hosting", t),
                   domain_purchase |-> tier_includes("domain_hosting", t),
                   automatic_deployment |->
                        tier_includes("domain_hosting", t) ] ]

make_caller_bot(d, t) ==
    IF ~ tier_includes("caller_bot", t) THEN None
    ELSE Some(
        [ provision_number |-> TRUE,
          ivr_menu |-> << "Press 1 for sales", "Press 2 for support",
                          "Press 3 for hours" >>,
          voice_to_text |-> TRUE,
          flows |->
            << "Inbound " \o Arrow \o " intent detect " \o Arrow \o " book "
                 \o Arrow \o " SMS confirmation",
               "Inbound " \o Arrow \o " order capture " \o Arrow
                 \o " payment link " \o Arrow \o " notify owner" >>,
          post_call_sms |-> TRUE,
          forward_to_owner |-> TRUE ])

multi_platform_channels(start, t) ==
    LET ch1 == IF tier_includes("booking", t)
               THEN start \o << "WhatsApp", "Instagram DMs",
                                "Facebook Messenger" >>
               ELSE start
        ch2 == IF tier_includes("caller_bot", t)
               THEN Append(ch1, "Phone calls")
               ELSE ch1
    IN  Append(ch2, "In-app chat")

\* The channel list kept from an earlier request instead of built afresh.
make_multi_platform_shared_list(d, t) ==
    LET earlier ==
            IF remembered # None /\ remembered[1].response.status = 200
            THEN remembered[1].response.body.multi_platform.channels
            ELSE << "Website", "Email" >>
    IN  [ channels |-> multi_platform_channels(earlier, t),
          consistency |->
            "Single persona and knowledge base shared across channels" ]

make_multi_platform(d, t) ==
    [ channels |-> multi_platform_channels(<< "Website", "Email" >>, t),
      consistency |->
        "Single persona and knowledge base shared across channels" ]

make_subscriptions(t) ==
    [ current |-> t,
      starter |->
        [ includes |-> << "Social media posting", "Basic chatbot",
                          "Basic analytics" >>,
          locked |-> << "Website integration", "Booking system",
                        "Multi-platform chat", "Advanced analytics",
                        "Email/SMS automations", "Domain + hosting",
                        "Caller bot", "CRM", "AI-generated ads",
                        "Unlimited automations" >> ],
      standard |->
        [ includes |-> << "Everything in Starter", "Website integration",
                          "Booking system", "Multi-platform chat",
                          "Advanced analytics", "Email/SMS automations" >>,
          locked |-> << "Domain + hosting", "Full website builder",
                        "Caller bot", "CRM", "AI-generated ads",
                        "Unlimited automations" >> ],
      premium |->
        [ includes |-> << "Everything in Standard",
                          "Domain + hosting included",
                          "Full website builder", "Caller bot", "CRM",
                          "AI-generated ads", "Unlimited automations",
                          "Full digital workforce suite" >>,
          locked |-> << >> ] ]

make_marketing_plan(d, t) ==
    LET channels0 == << "Website", "Email", "Social" >>
        channels == IF tier_includes("ads", t)
                    THEN Append(channels0, "Ads") ELSE channels0
    IN  [ strategy |-> << "Define ICP and pain points",
                          "Create content pillars (education, proof, offer)",
                          "Run weekly offer tests" >>,
          channels |-> channels,
          cadence |->
            [ email |-> "1 newsletter + 1 promotion/week",
              social |-> "5 posts/week",
              ads |-> IF tier_includes("ads", t) THEN "2-3 creatives/week"
                      ELSE "N/A" ] ]

\* The service keywords skip the first service.
make_seo_keywords_rest_only(d) ==
    << d.industry \o " " \o d.location,
       IF Len(d.services) # 0
       THEN "best " \o d.services[1] \o " " \o d.location
       ELSE d.industry,
       d.business_name \o " reviews",
       d.industry \o " pricing " \o d.location >>
    \o [ i \in 1..(IF Len(d.services) = 0 THEN 0 ELSE Len(d.services) - 1)
            |-> d.services[i + 1] \o " " \o d.location ]

make_seo_keywords(d) ==
    << d.industry \o " " \o d.location,
       IF Len(d.services) # 0
       THEN "best " \o d.services[1] \o " " \o d.location
       ELSE d.industry,
       d.business_name \o " reviews",
       d.industry \o " pricing " \o d.location >>
    \o [ i \in 1..Len(d.services) |-> d.services[i] \o " " \o d.location ]

make_access_links(d, t) ==
    LET domain_root == str_remove_spaces(str_lower(d.business_name))
    IN  [ website |->
            IF Truthy(d.website_url) THEN d.website_url
            ELSE IF tier_includes("domain_hosting", t)
                 THEN Some("https://" \o domain_root \o ".site")
                 ELSE None,
          booking |-> "https://book." \o domain_root \o ".ai",
          admin_portal |-> "https://admin." \o domain_root \o ".ai",
          chat_widget |->
            IF Truthy(d.website_url) \/ tier_includes("domain_hosting", t)
            THEN Some("https://" \o domain_root \o ".site/chat")
            ELSE None ]

-----------------------------------------------------------------------------
(* POST /generate *)

ValidTiers == { "starter", "standard", "premium" }

\* The membership test dropped: every tier name passes.
tier_is_valid_any(t) == TRUE

tier_is_valid(t) == t \in ValidTiers

TierErrorDetail ==
    "subscription_tier must be one of: starter, standard, premium"

\* GenerationResult(...): the keyword arguments are evaluated in the order
\* written, so the first generator that raises ends the construction.
build_result(d, t, now) ==
    LET sales == make_sales_ads(d, t)
    IN  IF IsRaised(sales) THEN sales
        ELSE [ business_summary |-> make_business_summary(d),
               brand_identity |-> make_brand_identity(d),
               chatbot_persona |-> make_chatbot_persona(d),
               website_structure |-> make_website_structure(d, t),
               social_media_plan |-> make_social_plan(d, t),
               booking_tools |-> make_booking_tools(d, t),
               sales_and_ads |-> sales,
               sops |-> make_sops(d, t),
               automations |-> make_automations(d, t),
               dashboard |-> make_dashboard(d, t),
               social_oauth |-> make_social_oauth(d),
               website_actions |-> make_website_actions(d, t),
               caller_bot |-> make_caller_bot(d, t),
               multi_platform |-> make_multi_platform(d, t),
               subscriptions |-> make_subscriptions(t),
               marketing_plan |-> make_marketing_plan(d, t),
               seo_keywords |-> make_seo_keywords(d),
               user_access_links |-> make_access_links(d, t),
               subscription_tier |-> t,
               created_at |-> now ]

\* Where generate_assistant goes on when a create_document call raises.
\* Both calls sit in one try block: the except clause prints and control
\* falls through to the return statement.

\* Each write in a try block of its own: the next write is still made.
after_input_write_raised_own_try ==
    [ pc |-> "persist_result", response |-> Unset ]

after_input_write_raised ==
    [ pc |-> "return", response |-> Unset ]

\* No except clause: the store's exception reaches the caller.
after_result_write_raised_propagate ==
    [ pc |-> "done", response |-> [ status |-> 500, error |-> "Exception" ] ]

after_result_write_raised ==
    [ pc |-> "return", response |-> Unset ]

-----------------------------------------------------------------------------
(* Inputs *)

ServicePool == << "Haircut", "Hair Color", "Styling", "Bridal Makeup" >>

ServiceLists ==
    { SubSeq(ServicePool, 1, n) :
        n \in 0..(IF MaxServices < Len(ServicePool) THEN MaxServices
                  ELSE Len(ServicePool)) }

RawTiers ==
    { "starter", "standard", "STANDARD", "PrEmIuM", "bogus", "Bogus" }

\* The optional fields of BusinessInput: all left out, or all given.
Profiles ==
    { [ goals |-> << >>, brand_voice |-> None, website_url |-> None ],
      [ goals |-> << "More bookings", "Repeat clients" >>,
        brand_voice |-> Some("Warm and upbeat"),
        website_url |-> Some("https://glowstudio.example") ] }

BusinessInput(services, raw_tier, profile) ==
    [ business_name |-> "Glow Studio",
      industry |-> "Hair Salon",
      services |-> services,
      location |-> "New York",
      target_audience |-> "busy professionals",
      goals |-> profile.goals,
      tone |-> "professional",
      brand_colors |-> << "#6d28d9", "#0ea5e9" >>,
      brand_voice |-> profile.brand_voice,
      faqs |-> << >>,
      examples |-> << >>,
      subscription_tier |-> raw_tier,
      website_url |-> profile.website_url,
      contact |-> None ]

Inputs ==
    { BusinessInput(s, t, p) :
        s \in ServiceLists, t \in RawTiers, p \in Profiles }

Timestamps == 0..MaxClock

Collections == { "businessinput", "generationresult" }

\* Whether create_document succeeds, per collection, for one request.
StoreBehaviours == [ Collections -> BOOLEAN ]

-----------------------------------------------------------------------------
(* generate_assistant, statement by statement *)

\* the store as it is taken to be until a write is made
StoreUp == [ c \in Collections |-> TRUE ]

NoTier == "<unbound>"

Init ==
    /\ pc = "idle"
    /\ data = Unset
    /\ tier = NoTier
    /\ result = Unset
    /\ response = Unset
    /\ store = StoreUp
    /\ calls = << >>
    /\ logged = << >>
    /\ remembered = None
    /\ fn_args = Unset
    /\ fn_ret = Unset

\* A request arrives: FastAPI has parsed the body into `data`.
Receive ==
    /\ pc = "idle"
    /\ \E d \in Inputs : data' = d
    /\ pc' = "normalize"
    /\ UNCHANGED << tier, result, response, store, calls, logged, remembered,
                    fn_args, fn_ret >>

\* tier = data.subscription_tier.lower()
NormalizeTier ==
    /\ pc = "normalize"
    /\ tier' = str_lower(data.subscription_tier)
    /\ pc' = "validate"
    /\ UNCHANGED << data, result, response, store, calls, logged,
                    remembered, fn_args, fn_ret >>

\* if tier not in {...}: raise HTTPException(status_code=400, ...)
ValidateTier ==
    /\ pc = "validate"
    /\ IF tier_is_valid(tier)
       THEN /\ pc' = "generate"
            /\ UNCHANGED response
       ELSE /\ pc' = "done"
            /\ response' = [ status |-> 400, detail |-> TierErrorDetail ]
    /\ UNCHANGED << data, tier, result, store, calls, logged, remembered,
                    fn_args, fn_ret >>

\* result = GenerationResult(...); an exception of a generator is not
\* handled, and the framework answers 500.
Generate ==
    /\ pc = "generate"
    /\ \E now \in Timestamps :
          LET r == build_result(data, tier, now)
          IN  IF IsRaised(r)
              THEN /\ pc' = "done"
                   /\ response' = [ status |-> 500, error |-> r.exc ]
                   /\ UNCHANGED result
              ELSE /\ pc' = "persist_input"
                   /\ result' = r
                   /\ UNCHANGED response
    /\ UNCHANGED << data, tier, store, calls, logged, remembered,
                    fn_args, fn_ret >>

\* create_document("businessinput", data.model_dump()); how the store
\* treats this request's writes is settled as the first one is made.
PersistInput ==
    /\ pc = "persist_input"
    /\ calls' = Append(calls, [ collection |-> "businessinput",
                                document |-> data ])
    /\ \E s \in StoreBehaviours :
          /\ store' = s
          /\ IF s["businessinput"]
             THEN /\ pc' = "persist_result"
                  /\ UNCHANGED << logged, response >>
             ELSE /\ pc' = after_input_write_raised.pc
                  /\ response' = after_input_write_raised.response
                  /\ logged' = Append(logged, "DB save error:")
    /\ UNCHANGED << data, tier, result, remembered, fn_args, fn_ret >>

\* create_document("generationresult", result.model_dump())
PersistResult ==
    /\ pc = "persist_result"
    /\ calls' = Append(calls, [ collection |-> "generationresult",
                                document |-> result ])
    /\ IF store["generationresult"]
       THEN /\ pc' = "return"
            /\ UNCHANGED << logged, response >>
       ELSE /\ pc' = after_result_write_raised.pc
            /\ response' = after_result_write_raised.response
            /\ logged' = Append(logged, "DB save error:")
    /\ UNCHANGED << data, tier, result, store, remembered, fn_args, fn_ret >>

\* return result
Return ==
    /\ pc = "return"
    /\ response' = [ status |-> 200, body |-> result ]
    /\ pc' = "done"
    /\ UNCHANGED << data, tier, result, store, calls, logged, remembered,
                    fn_args, fn_ret >>

\* The response is sent and the request's locals are gone; the observer
\* may keep this request to compare a later one with it.
Complete ==
    /\ pc = "done"
    /\ pc' = "idle"
    /\ remembered' \in { remembered,
                         Some([ data |-> data, response |-> response ]) }
    /\ data' = Unset
    /\ tier' = NoTier
    /\ result' = Unset
    /\ response' = Unset
    /\ store' = StoreUp
    /\ calls' = << >>
    /\ logged' = << >>
    /\ UNCHANGED << fn_args, fn_ret >>

Next ==
    \/ Receive
    \/ NormalizeTier
    \/ ValidateTier
    \/ Generate
    \/ PersistInput
    \/ PersistResult
    \/ Return
    \/ Complete

Spec == Init /\ [][Next]_vars

-----------------------------------------------------------------------------
(* The generator functions called directly *)

GateFeatures == DOMAIN FeatureGates \cup { "unknown_feature", "Ads" }

GateTiers == ValidTiers \cup { "bogus", "PREMIUM" }

FnCalls ==
    { [ fn |-> "tier_includes", feature |-> f, tier_a |-> a, tier_b |-> b ] :
        f \in GateFeatures, a \in GateTiers, b \in GateTiers }
    \cup { [ fn |-> "make_seo_keywords", data |-> d ] : d \in Inputs }

FnInit ==
    /\ pc = "idle"
    /\ data = Unset
    /\ tier = NoTier
    /\ result = Unset
    /\ response = Unset
    /\ store = StoreUp
    /\ calls = << >>
    /\ logged = << >>
    /\ remembered = None
    /\ fn_args \in FnCalls
    /\ fn_ret = Unset

\* tier_includes(feature, tier), for one feature at two tiers
CallTierIncludes ==
    /\ fn_args.fn = "tier_includes"
    /\ ~ IsSet(fn_ret)
    /\ fn_ret' = [ at_a |-> tier_includes(fn_args.feature, fn_args.tier_a),
                   at_b |-> tier_includes(fn_args.feature, fn_args.tier_b) ]
    /\ UNCHANGED << server_vars, fn_args >>

\* make_seo_keywords(data)
CallSeoKeywords ==
    /\ fn_args.fn = "make_seo_keywords"
    /\ ~ IsSet(fn_ret)
    /\ fn_ret' = [ keywords |-> make_seo_keywords(fn_args.data) ]
    /\ UNCHANGED << server_vars, fn_args >>

FnNext ==
    \/ CallTierIncludes
    \/ CallSeoKeywords

FnSpec == FnInit /\ [][FnNext]_vars

-----------------------------------------------------------------------------
(* Properties *)

InRequest == pc # "idle"

NormalizedTier == str_lower(data.subscription_tier)

StripTime(r) == [ r EXCEPT !.created_at = 0 ]

CallsTo(c) == { i \in 1..Len(calls) : calls[i].collection = c }

Answered(status) == pc = "done" /\ response.status = status

\* C1: a request whose lower-cased subscription_tier is not starter, standard
\* or premium ends in the 400 response with the fixed message; no generator
\* has run for it (no result exists, whatever the services list) and no
\* create_document call is made for it at any point of the request.
C1_InvalidTierRejected ==
    (InRequest /\ NormalizedTier \notin { "starter", "standard", "premium" })
        => /\ pc \in { "normalize", "validate", "done" }
           /\ ~ IsSet(result)
           /\ calls = << >>
           /\ pc = "done" =>
                response =
                  [ status |-> 400,
                    detail |-> "subscription_tier must be one of: starter, standard, premium" ]

\* C1 witness: a request with tier "bogus" and an empty services list has
\* been answered 400.
C1_Witness ==
    /\ Answered(400)
    /\ data.subscription_tier = "bogus"
    /\ data.services = << >>

\* C2: a request with a valid tier and a non-empty services list is answered
\* 200 with the generated result, whichever of the two collections the store
\* refuses: the body is the result built before the writes, it is the
\* function of the input alone (timestamp aside), and no collection has
\* received more than one create_document call.
C2_StoreNeverAffectsResponse ==
    (pc = "done" /\ NormalizedTier \in { "starter", "standard", "premium" }
                 /\ data.services # << >>)
        => /\ response = [ status |-> 200, body |-> result ]
           /\ StripTime(result) = StripTime(build_result(data, NormalizedTier, 0))
           /\ \A c \in Collections : Cardinality(CallsTo(c)) <= 1

\* C2 witness: a request answered 200 although the second write was made
\* and raised.
C2_Witness ==
    /\ Answered(200)
    /\ store["businessinput"] /\ ~ store["generationresult"]
    /\ Len(calls) = 2
    /\ logged # << >>

\* C3 as claimed: every request answered 200 has attempted both writes, the
\* input document to "businessinput" and then the result document to
\* "generationresult", whether or not the first write failed.
C3_Original_BothWritesAlwaysAttempted ==
    Answered(200)
        => calls = << [ collection |-> "businessinput", document |-> data ],
                      [ collection |-> "generationresult",
                        document |-> result ] >>

\* C3 amended: writes are attempted only after the result has been built;
\* the first is the input document to "businessinput"; the result document
\* goes to "generationresult" second, and it is attempted exactly when the
\* first write did not raise (one try block holds both calls).
C3_ResultWriteOnlyAfterInputWriteSucceeds ==
    /\ calls # << >> => IsSet(result)
    /\ Answered(200) =>
          /\ Len(calls) \in { 1, 2 }
          /\ calls[1] = [ collection |-> "businessinput", document |-> data ]
          /\ Len(calls) = 2 <=> store["businessinput"]
          /\ Len(calls) = 2 =>
                calls[2] = [ collection |-> "generationresult",
                             document |-> result ]

\* C3 witness: the input write raised, the store would have taken the result
\* document, and the request was answered 200 after that one call.
C3_Witness ==
    /\ Answered(200)
    /\ ~ store["businessinput"] /\ store["generationresult"]
    /\ Len(calls) = 1

\* C4 as claimed: the calendar_30_day list of the social plan has exactly 30
\* entries, day d at position d for d in 1..30, with the theme at index
\* (d-1) mod 7 of the 7-theme list.
C4_Original_CalendarHas30Entries ==
    IsSet(result) =>
        LET cal == result.social_media_plan.calendar_30_day
        IN  /\ Len(cal) = 30
            /\ \A d \in 1..30 :
                  /\ cal[d].day = d
                  /\ cal[d].theme = CalendarThemes[((d - 1) % 7) + 1]

\* C5 as claimed: /generate rejects a request on the tier validation only;
\* a request with a valid tier is answered 200, an empty services list
\* included (no out-of-range access to services[0]).
C5_Original_OnlyTierValidationRejects ==
    pc = "done" =>
        \/ response.status = 200
        \/ /\ response.status = 400
           /\ NormalizedTier \notin { "starter", "standard", "premium" }

\* C7: the result for a starter request has exactly 3 dashboard roles,
\* reminders ["email"] with calendar_sync false, platforms
\* ["Instagram","Facebook"] with no ad_angles key, and caller_bot null.
C7_StarterSections ==
    (IsSet(result) /\ NormalizedTier = "starter")
        => /\ Len(result.dashboard.roles) = 3
           /\ result.booking_tools.reminders = << "email" >>
           /\ result.booking_tools.calendar_sync = FALSE
           /\ result.social_media_plan.platforms = << "Instagram", "Facebook" >>
           /\ "ad_angles" \notin DOMAIN result.social_media_plan
           /\ result.caller_bot = None

\* C7 witness: a starter request has been answered 200 with its result.
C7_Witness ==
    /\ Answered(200)
    /\ data.subscription_tier = "starter"
    /\ response.body = result

\* C8: the result for a premium request has the 9 dashboard roles (3 base,
\* then 2 ads, then 4 voice-support roles, in that order), reminders
\* ["email","sms","whatsapp"] with calendar_sync true, and a non-null
\* caller_bot with provision_number true.
C8_PremiumSections ==
    (IsSet(result) /\ NormalizedTier = "premium")
        => /\ [ i \in 1..Len(result.dashboard.roles)
                  |-> result.dashboard.roles[i].name ]
                = << "AI Receptionist", "AI Support Agent",
                     "AI Content Creator",
                     "AI Ad Expert", "AI Social Media Manager",
                     "AI Sales Agent", "AI Booking & Scheduling Assistant",
                     "AI Financial Assistant",
                     "24/7 Multi-platform Assistant" >>
           /\ Len(result.dashboard.roles) = 9
           /\ result.booking_tools.reminders = << "email", "sms", "whatsapp" >>
           /\ result.booking_tools.calendar_sync = TRUE
           /\ result.caller_bot # None
           /\ result.caller_bot[1].provision_number = TRUE

\* C8 witness: a request whose tier normalises to premium has been answered
\* 200 with its result.
C8_Witness ==
    /\ Answered(200)
    /\ data.subscription_tier = "PrEmIuM"
    /\ response.body.subscription_tier = "premium"

ModuloTime(r) ==
    IF r.status = 200 THEN [ r EXCEPT !.body.created_at = 0 ] ELSE r

\* C9: a request whose input equals that of any earlier request gets the
\* same response as the earlier one, created_at aside, whatever requests
\* were served in between and whatever the store did.
C9_SameInputSameResponse ==
    (pc = "done" /\ remembered # None /\ remembered[1].data = data)
        => ModuloTime(response) = ModuloTime(remembered[1].response)

\* C9 witness: two requests with the same input were answered 200 with
\* different created_at; the later one's writes were refused.
C9_Witness ==
    /\ Answered(200)
    /\ remembered # None
    /\ remembered[1].data = data
    /\ remembered[1].response.status = 200
    /\ remembered[1].response.body.created_at # response.body.created_at
    /\ ~ store["businessinput"]

\* C6: tier_includes is monotonic over starter < standard < premium for
\* every feature name, and for a feature of the gate table it holds exactly
\* when the tier's ordinal reaches the feature's minimum ordinal.
C6_TierIncludesMonotonic ==
    (fn_args.fn = "tier_includes" /\ IsSet(fn_ret)
        /\ fn_args.tier_a \in ValidTiers /\ fn_args.tier_b \in ValidTiers)
        => /\ TierOrder[fn_args.tier_a] >= TierOrder[fn_args.tier_b]
                => (fn_ret.at_b => fn_ret.at_a)
           /\ fn_args.feature \in DOMAIN FeatureGates
                => (fn_ret.at_a <=>
                      TierOrder[fn_args.tier_a]
                        >= FeatureGates[fn_args.feature])

\* C6 witness: a feature gated at standard was found off at starter and on
\* at premium.
C6_Witness ==
    /\ fn_args.fn = "tier_includes" /\ IsSet(fn_ret)
    /\ fn_args.feature = "booking"
    /\ fn_args.tier_a = "premium" /\ fn_args.tier_b = "starter"
    /\ fn_ret.at_a /\ ~ fn_ret.at_b

SeoCalled == fn_args.fn = "make_seo_keywords" /\ IsSet(fn_ret)

SeoFixedEntries(d, kw) ==
    /\ Len(kw) = 4 + Len(d.services)
    /\ kw[1] = d.industry \o " " \o d.location
    /\ kw[3] = d.business_name \o " reviews"
    /\ kw[4] = d.industry \o " pricing " \o d.location
    /\ \A i \in 1..Len(d.services) :
            kw[4 + i] = d.services[i] \o " " \o d.location

\* C10 as claimed: for every input the list has 4 + len(services) entries,
\* the second of which is 'best <services[0]> <location>'.
C10_Original_SecondEntryIsBestFirstService ==
    SeoCalled =>
        /\ SeoFixedEntries(fn_args.data, fn_ret.keywords)
        /\ \E i \in { 1 } \cap DOMAIN fn_args.data.services :
              fn_ret.keywords[2] = "best " \o fn_args.data.services[i]
                                   \o " " \o fn_args.data.location

\* C10 amended: the list has 4 + len(services) entries: '<industry>
\* <location>', then 'best <services[0]> <location>' when services is not
\* empty and the industry alone when it is, then '<business_name> reviews',
\* '<industry> pricing <location>', then '<service> <location>' for every
\* service in input order, the first one included.
C10_SeoKeywords ==
    SeoCalled =>
        /\ SeoFixedEntries(fn_args.data, fn_ret.keywords)
        /\ fn_ret.keywords[2] =
              IF fn_args.data.services = << >> THEN fn_args.data.industry
              ELSE "best " \o fn_args.data.services[1] \o " "
                   \o fn_args.data.location

\* C10 witness: make_seo_keywords has returned for an input with two
\* services, the first of them in the second and in the fifth entry.
C10_Witness ==
    /\ SeoCalled
    /\ Len(fn_args.data.services) = 2
    /\ fn_ret.keywords[2] = "best Haircut New York"
    /\ fn_ret.keywords[5] = "Haircut New York"
    /\ Len(fn_ret.keywords) = 6

SameChar(x, y) ==
    \/ x = y
    \/ \E k \in 1..Len(UpperChars) :
            { x, y } = { SubSeq(UpperChars, k, k), SubSeq(LowerChars, k, k) }

\* a and b spell the same name, letter case aside
SameIgnoringCase(a, b) ==
    /\ Len(a) = Len(b)
    /\ \A i \in 1..Len(a) : SameChar(SubSeq(a, i, i), SubSeq(b, i, i))

EarlierWithOtherCase ==
    /\ remembered # None
    /\ remembered[1].data =
          [ data EXCEPT !.subscription_tier =
                            remembered[1].data.subscription_tier ]
    /\ SameIgnoringCase(remembered[1].data.subscription_tier,
                        data.subscription_tier)

\* C11: the tier field is case-insensitive. A request that differs from an
\* earlier one only in the letter case of subscription_tier gets the same
\* decision and, when accepted, the same result in every section; the
\* result's subscription_tier and subscriptions.current are the tier name in
\* lower case, and the sections are those the generators give for that
\* lower-case tier, never for the field as received.
C11_TierCaseInsensitive ==
    /\ (pc = "done" /\ EarlierWithOtherCase)
          => ModuloTime(response) = ModuloTime(remembered[1].response)
    /\ IsSet(result)
          => /\ result.subscription_tier \in { "starter", "standard", "premium" }
             /\ SameIgnoringCase(result.subscription_tier,
                                 data.subscription_tier)
             /\ result.subscriptions.current = result.subscription_tier
    /\ pc = "persist_input"
          => StripTime(result)
               = StripTime(build_result(data, result.subscription_tier, 0))

\* C11 witness: "STANDARD" has been answered 200 after the same input with
\* "standard" was, and its result carries the tier "standard".
C11_Witness ==
    /\ Answered(200)
    /\ EarlierWithOtherCase
    /\ data.subscription_tier = "STANDARD"
    /\ remembered[1].data.subscription_tier = "standard"
    /\ remembered[1].response.status = 200
    /\ response.body.subscription_tier = "standard"

GateCalled == fn_args.fn = "tier_includes" /\ IsSet(fn_ret)

\* the features whose minimum ordinal is 1 or 2
GatedAboveStarter ==
    { "website", "ads", "booking", "caller_bot", "crm", "full_builder",
      "voice_support", "analytics_full", "domain_hosting" }

\* C12: tier_includes always returns a boolean. An unknown tier name counts
\* as ordinal 0: it enables what starter enables and no feature whose
\* minimum ordinal is 1 or 2. An unknown feature name counts as minimum
\* ordinal 0, so every tier enables it. The result is always
\* ordinal(tier) >= ordinal(feature) with those defaults.
C12_UnknownInputsLeastPrivileged ==
    GateCalled =>
        LET f == fn_args.feature
            a == fn_args.tier_a
            b == fn_args.tier_b
            ord_a == IF a = "premium" THEN 2 ELSE IF a = "standard" THEN 1
                     ELSE 0
            min_f == IF f \in DOMAIN FeatureGates THEN FeatureGates[f] ELSE 0
        IN  /\ fn_ret.at_a \in BOOLEAN /\ fn_ret.at_b \in BOOLEAN
            /\ fn_ret.at_a <=> (ord_a >= min_f)
            /\ a \notin { "starter", "standard", "premium" } =>
                  /\ f \in GatedAboveStarter => ~ fn_ret.at_a
                  /\ b = "starter" => fn_ret.at_a = fn_ret.at_b
            /\ f \notin DOMAIN FeatureGates => fn_ret.at_a

\* C12 witness: the unknown tier "PREMIUM" was refused caller_bot, which
\* "premium" is given.
C12_Witness ==
    /\ GateCalled
    /\ fn_args.feature = "caller_bot"
    /\ fn_args.tier_a = "PREMIUM" /\ fn_args.tier_b = "premium"
    /\ ~ fn_ret.at_a /\ fn_ret.at_b

====
